---- MODULE Spec2Model ----
(***************************************************************************)
(* A model of the VeriLeaf AI pipeline server                              *)
(* (src/client/ai_pipeline/api_server.py): the vegetation index            *)
(* computation, the metric summaries, the impact analysis and the three    *)
(* request handlers around them.                                           *)
(*                                                                         *)
(* Floating point numbers are modelled as fixed-point numbers.  A number   *)
(* is a record [kind, v]: a finite number ("fin") is the integer v in      *)
(* units of 1e-6, so that EPS = 1e-6 is exactly 1 unit; "nan" is numpy's   *)
(* not-a-number and "inf" (v = +1 or -1) its infinities, so that x/0, 0/0  *)
(* and the logarithm of a non-positive number give what numpy gives.  A    *)
(* product or quotient is rounded to the nearest unit, and a magnitude     *)
(* beyond MaxRaw units is held at MaxRaw (such a value stays finite, as it *)
(* does in a float).  All intermediate values stay inside 32-bit integers. *)
(***************************************************************************)
EXTENDS Integers, Sequences, FiniteSets, TLC

\* ---------------------------------------------------------------- bounds
\* The largest magnitude, in units, that a finite number of the model holds.
MaxRaw == 1000000000
\* The pixels of a raster given to _compute_indices.
MaxPixels == 1

\* ------------------------------------------------------------ arithmetic
\* 1.0 in units.
One == 1000 * 1000

AbsInt(n) == IF n < 0 THEN -n ELSE n
Sgn(n) == IF n > 0 THEN 1 ELSE IF n < 0 THEN -1 ELSE 0
MinInt(a, b) == IF a <= b THEN a ELSE b
MaxInt(a, b) == IF a >= b THEN a ELSE b

\* <<q, r>> with x * y = q * One + r and 0 <= r < One, for x, y >= 0, by
\* splitting both factors at 1000; q is held at MaxRaw.
MulParts(x, y) ==
    LET x1 == x \div 1000
        x0 == x % 1000
        y1 == y \div 1000
        y0 == y % 1000
        low == x0 * y0
        mid == x1 * y0 + x0 * y1 + low \div 1000
    IN  IF y1 > 0 /\ x1 > MaxRaw \div y1 THEN <<MaxRaw, 0>>
        ELSE <<MinInt(MaxRaw, x1 * y1 + mid \div 1000),
               (mid % 1000) * 1000 + (low % 1000)>>

\* |x * y / One| for x, y >= 0, rounded to the nearest unit.
MulNat(x, y) ==
    LET p == MulParts(x, y)
    IN  MinInt(MaxRaw, p[1] + (IF 2 * p[2] >= One THEN 1 ELSE 0))

\* |x * One / y| for x >= 0, y > 0, rounded to the nearest unit, by long
\* division, two decimal digits at a time.  A divisor above 20.0 is cut,
\* with the dividend, to thousandths.
DivNat(x, y) ==
    LET cut == y > 20 * One
        a == IF cut THEN x \div 1000 ELSE x
        b == IF cut THEN y \div 1000 ELSE y
        q0 == a \div b
        r0 == a % b
        q1 == (r0 * 100) \div b
        r1 == (r0 * 100) % b
        q2 == (r1 * 100) \div b
        r2 == (r1 * 100) % b
        q3 == (r2 * 100) \div b
        r3 == (r2 * 100) % b
    IN  IF q0 >= MaxRaw \div One THEN MaxRaw
        ELSE ((q0 * 100 + q1) * 100 + q2) * 100 + q3
             + (IF 2 * r3 >= b THEN 1 ELSE 0)

Fin(v) == [kind |-> "fin", v |-> MaxInt(-MaxRaw, MinInt(MaxRaw, v))]
NaN == [kind |-> "nan", v |-> 0]
Inf(s) == [kind |-> "inf", v |-> s]
IsFin(x) == x.kind = "fin"
IsNaN(x) == x.kind = "nan"
IsInf(x) == x.kind = "inf"

Neg(x) == IF IsNaN(x) THEN NaN ELSE [kind |-> x.kind, v |-> -x.v]

Add(x, y) ==
    IF IsNaN(x) \/ IsNaN(y) THEN NaN
    ELSE IF IsInf(x) /\ IsInf(y) THEN (IF x.v = y.v THEN x ELSE NaN)
    ELSE IF IsInf(x) THEN x
    ELSE IF IsInf(y) THEN y
    ELSE Fin(x.v + y.v)

Sub(x, y) == Add(x, Neg(y))

Abs(x) == IF IsNaN(x) THEN NaN ELSE [kind |-> x.kind, v |-> AbsInt(x.v)]

Mul(x, y) ==
    IF IsNaN(x) \/ IsNaN(y) THEN NaN
    ELSE IF IsInf(x) \/ IsInf(y)
         THEN (IF x.v = 0 \/ y.v = 0 THEN NaN ELSE Inf(Sgn(x.v) * Sgn(y.v)))
    ELSE Fin(Sgn(x.v) * Sgn(y.v) * MulNat(AbsInt(x.v), AbsInt(y.v)))

\* x / y: x/0 is an infinity and 0/0 is not a number.
Div(x, y) ==
    IF IsNaN(x) \/ IsNaN(y) THEN NaN
    ELSE IF IsInf(x) THEN (IF IsInf(y) THEN NaN
                           ELSE Inf(x.v * (IF y.v < 0 THEN -1 ELSE 1)))
    ELSE IF IsInf(y) THEN Fin(0)
    ELSE IF y.v = 0 THEN (IF x.v = 0 THEN NaN ELSE Inf(Sgn(x.v)))
    ELSE Fin(Sgn(x.v) * Sgn(y.v) * DivNat(AbsInt(x.v), AbsInt(y.v)))

\* numpy.clip(x, lo, hi) = minimum(maximum(x, lo), hi); lo and hi in units.
Clip(x, lo, hi) ==
    IF IsNaN(x) THEN NaN
    ELSE IF IsInf(x) THEN Fin(IF x.v > 0 THEN hi ELSE lo)
    ELSE Fin(MinInt(MaxInt(x.v, lo), hi))

Pow2 == <<1, 2, 4, 8, 16, 32, 64, 128, 256, 512, 1024, 2048, 4096, 8192,
          16384, 32768, 65536, 131072, 262144, 524288, 1048576>>
CeilDiv(a, b) == (a + b - 1) \div b

\* ln(2) in units.
Ln2 == 693147

\* ln(v / One) in units, for 0 < v: with v = m * 2^e and One <= m < 2 One,
\* ln(v / One) = e ln(2) + 2 atanh(z), z = (m - One) / (m + One) <= 1/3, and
\* atanh(z) = z (1 + z^2 (1/3 + z^2 (1/5 + z^2 (1/7 + z^2 (1/9 + z^2 / 11))))).
\* w is 2 z.
LnInt(v) ==
    LET up == CHOOSE e \in 1..21 :
                  v < One => /\ v >= CeilDiv(One, Pow2[e])
                             /\ v < CeilDiv(2 * One, Pow2[e])
        down == CHOOSE e \in 1..21 : v >= 2 * One => (v \div Pow2[e]) < 2 * One
        m == IF v < One THEN v * Pow2[up]
             ELSE IF v >= 2 * One THEN v \div Pow2[down] ELSE v
        e == IF v < One THEN -(up - 1) ELSE IF v >= 2 * One THEN down - 1 ELSE 0
        w == DivNat(2 * (m - One), m + One)
        z2 == MulNat(w, w) \div 4
        t5 == One \div 9 + MulNat(z2, One \div 11)
        t4 == One \div 7 + MulNat(z2, t5)
        t3 == One \div 5 + MulNat(z2, t4)
        t2 == One \div 3 + MulNat(z2, t3)
        t1 == One + MulNat(z2, t2)
    IN  e * Ln2 + MulNat(w, t1)

\* numpy.log(x).
Ln(x) ==
    IF IsNaN(x) THEN NaN
    ELSE IF IsInf(x) THEN (IF x.v > 0 THEN x ELSE NaN)
    ELSE IF x.v < 0 THEN NaN
    ELSE IF x.v = 0 THEN Inf(-1)
    ELSE Fin(LnInt(x.v))

\* One step of a bisection for the square root of v: r with the bit added
\* when its square does not pass v.
SqrtStep(v, r, bit) ==
    LET p == MulParts(r + bit, r + bit)
    IN  IF bit > 0 /\ p[1] < MaxRaw /\ (p[1] < v \/ (p[1] = v /\ p[2] = 0))
        THEN r + bit ELSE r

\* The largest r with r * r <= v * One, by bisection from the bit 2^k down.
RECURSIVE SqrtInt(_, _, _)
SqrtInt(v, r, bit) ==
    IF bit = 0 THEN r
    ELSE CHOOSE root \in {SqrtInt(v, next, bit \div 2) :
                             next \in {SqrtStep(v, r, bit)}} : TRUE

\* numpy.sqrt(x).
Sqrt(x) ==
    IF IsNaN(x) THEN NaN
    ELSE IF IsInf(x) THEN (IF x.v > 0 THEN x ELSE NaN)
    ELSE IF x.v < 0 THEN NaN
    ELSE CHOOSE root \in {Fin(SqrtInt(v, 0, 16777216)) : v \in {x.v}} : TRUE

\* The number n / d.
Num(n, d) == Fin((n * One) \div d)

\* ------------------------------------------------------------- variables
VARIABLES
    pc,         \* "input" before a computation is called, "done" after it,
                \* "serving" while the Flask application handles requests
    rgb,        \* _compute_indices: the raster, a sequence of pixels [r, g, b]
    indices,    \* _compute_indices: the six index rasters it returned
    ndviIn,     \* line 175: two values of vndvi
    fvcOut,     \* line 175: the fvc computed from each
    before,     \* _impact_analysis: the before-summary
    after,      \* _impact_analysis: the after-summary
    report,     \* _impact_analysis: the record it returned
    HAS_CV2,    \* line 42: cv2 was imported
    HAS_PIL,    \* line 48: PIL was imported
    uploadsDir, \* the files of UPLOAD_DIR
    resultsDir, \* the files of RESULTS_DIR: session id -> file content
    uuidCount,  \* the calls of uuid.uuid4() so far
    now,        \* the time datetime.utcnow() returns to the next analysis
                \* that keeps it: later for each one
    req,        \* the request handled last
    resp,       \* the response to it: status code and JSON body
    trace,      \* the pipeline stages the last request went through
    origin,     \* where the last response was decided
    answered    \* the <<session id, body>> of each successful analysis

idxVars == <<rgb, indices>>
fvcVars == <<ndviIn, fvcOut>>
impVars == <<before, after, report>>
libVars == <<HAS_CV2, HAS_PIL>>
diskVars == <<uploadsDir, resultsDir, uuidCount, now>>
srvVars == <<libVars, diskVars, req, resp, trace, origin, answered>>
vars == <<pc, rgb, indices, ndviIn, fvcOut, before, after, report,
          HAS_CV2, HAS_PIL, uploadsDir, resultsDir, uuidCount, now,
          req, resp, trace, origin, answered>>

\* --------------------------------------------------- vegetation indices
\* EPS = 1e-6, in units.
EPS == 1
\* ndvi_soil = 0.2 and ndvi_veg = 0.86, in units.
NdviSoil == 200000
NdviVeg == 860000

IndexNames == {"ndvi", "evi", "ndwi", "savi", "fvc", "lai"}

\* The ratio over ndvi_veg - ndvi_soil alone.
FvcNoEps(vndvi) ==
    LET t == Clip(Div(Sub(vndvi, Fin(NdviSoil)),
                      Sub(Fin(NdviVeg), Fin(NdviSoil))),
                  0, One)
    IN  Mul(t, t)
\* fvc = np.clip((vndvi - ndvi_soil) / (ndvi_veg - ndvi_soil + EPS), 0.0, 1.0) ** 2
Fvc(vndvi) ==
    LET t == Clip(Div(Sub(vndvi, Fin(NdviSoil)),
                      Add(Sub(Fin(NdviVeg), Fin(NdviSoil)), Fin(EPS))),
                  0, One)
    IN  Mul(t, t)

\* lai = -np.log(1.0 - np.clip(fvc, 0.0, 0.99) + EPS)
Lai(fvc) ==
    Neg(Ln(Add(Sub(Num(1, 1), Clip(fvc, 0, (99 * One) \div 100)), Fin(EPS))))

\* The index values before the final clamps, for one pixel.
RawIndices(p) ==
    LET R == p.r
        G == p.g
        B == p.b
        vndvi == Div(Sub(G, R), Add(Add(G, R), Fin(EPS)))
        evi == Div(Mul(Num(25, 10), Sub(G, R)),
                   Add(Add(Sub(Add(G, Mul(Num(6, 1), R)), Mul(Num(75, 10), B)),
                           Num(1, 1)),
                       Fin(EPS)))
        ndwi == Div(Sub(G, B), Add(Add(G, B), Fin(EPS)))
        savi == Div(Mul(Num(15, 10), Sub(G, R)),
                    Add(Add(Add(G, R), Num(5, 10)), Fin(EPS)))
        fvc == Fvc(vndvi)
    IN  [ndvi |-> vndvi, evi |-> evi, ndwi |-> ndwi, savi |-> savi,
         fvc |-> fvc, lai |-> Lai(fvc)]

\* The clamp of each returned raster: [lo, hi] in units.
ClampLo(k) == IF k \in {"fvc", "lai"} THEN 0 ELSE -One
ClampHi(k) == IF k = "lai" THEN 6 * One ELSE One

\* The raster returned as computed, with no final clamp.
FinalClipNone(k, x) == x
FinalClip(k, x) == Clip(x, ClampLo(k), ClampHi(k))

\* _compute_indices(rgb): element-wise over the raster.
ComputeIndices(raster) ==
    [k \in IndexNames |->
        [i \in DOMAIN raster |-> FinalClip(k, RawIndices(raster[i])[k])]]

\* ------------------------------------------------------ metric summaries
Stats == {"mean", "std", "max", "min"}

RECURSIVE SumSeq(_)
SumSeq(s) == IF s = <<>> THEN Fin(0) ELSE Add(Head(s), SumSeq(Tail(s)))

\* The order of two numbers that are not NaN.
Key(x) == IF IsInf(x) THEN x.v * (MaxRaw + 1) ELSE x.v
Leq(x, y) == Key(x) <= Key(y)

\* _metrics_summary(arr): the NaN-aware mean, std, max and min of a raster
\* (all NaN when no entry is a number).
MetricsSummary(arr) ==
    LET vals == SelectSeq(arr, LAMBDA x : ~IsNaN(x))
        n == Num(Len(vals), 1)
        mean == Div(SumSeq(vals), n)
        dev == [i \in DOMAIN vals |->
                   Mul(Abs(Sub(vals[i], mean)), Abs(Sub(vals[i], mean)))]
    IN  IF vals = <<>> THEN [st \in Stats |-> NaN]
        ELSE [mean |-> mean,
              std |-> Sqrt(Div(SumSeq(dev), n)),
              max |-> CHOOSE x \in {vals[i] : i \in DOMAIN vals} :
                          \A i \in DOMAIN vals : Leq(vals[i], x),
              min |-> CHOOSE x \in {vals[i] : i \in DOMAIN vals} :
                          \A i \in DOMAIN vals : Leq(x, vals[i])]

\* _compute_metrics(rgb): the 24 entries '<index>_<stat>'.
ComputeMetrics(raster) ==
    LET idx == ComputeIndices(raster)
        sums == [k \in IndexNames |-> MetricsSummary(idx[k])]
    IN  [name \in {k \o "_" \o st : k \in IndexNames, st \in Stats} |->
            LET p == CHOOSE p \in IndexNames \X Stats :
                         p[1] \o "_" \o p[2] = name
            IN  sums[p[1]][p[2]]]

\* ------------------------------------------------------- impact analysis
ImpactMetrics == <<"ndvi", "evi", "fvc", "lai">>

\* d.get(key, default)
Get(d, key, default) == IF key \in DOMAIN d THEN d[key] ELSE default

\* The relative change over abs(b) alone.
ChangePctNoEps(bf, af, metric) ==
    LET b == Get(bf, metric \o "_mean", Fin(0))
        a == Get(af, metric \o "_mean", Fin(0))
    IN  Mul(Div(Sub(a, b), Abs(b)), Num(100, 1))
\* change_pct(metric) = ((a - b) / (abs(b) + EPS)) * 100.0
ChangePct(bf, af, metric) ==
    LET b == Get(bf, metric \o "_mean", Fin(0))
        a == Get(af, metric \o "_mean", Fin(0))
    IN  Mul(Div(Sub(a, b), Add(Abs(b), Fin(EPS))), Num(100, 1))

\* weighted = 0.4 * ndvi_ch + 0.2 * evi_ch + 0.2 * fvc_ch + 0.2 * lai_ch
Weighted(ndvi_ch, evi_ch, fvc_ch, lai_ch) ==
    Add(Add(Add(Mul(Num(4, 10), ndvi_ch), Mul(Num(2, 10), evi_ch)),
            Mul(Num(2, 10), fvc_ch)),
        Mul(Num(2, 10), lai_ch))

\* The score with no offset of 50.
ImpactScoreUncentred(weighted) == Clip(Div(weighted, Num(2, 1)), 0, 100 * One)
\* impact_score = np.clip(50.0 + weighted / 2.0, 0.0, 100.0)
ImpactScore(weighted) ==
    Clip(Add(Num(50, 1), Div(weighted, Num(2, 1))), 0, 100 * One)

\* x >= n for the number x and the integer n (false of a NaN).
Geq(x, n) == ~IsNaN(x) /\ Key(x) >= n * One

\* The chain with a strict first comparison.
CategoryStrict(impact_score) ==
    IF Geq(impact_score, 80) /\ impact_score # Fin(80 * One) THEN "Excellent"
    ELSE IF Geq(impact_score, 65) THEN "Good"
    ELSE IF Geq(impact_score, 50) THEN "Moderate"
    ELSE IF Geq(impact_score, 35) THEN "Poor"
    ELSE "Very Poor"
\* The if / elif chain of lines 225-234.
Category(impact_score) ==
    IF Geq(impact_score, 80) THEN "Excellent"
    ELSE IF Geq(impact_score, 65) THEN "Good"
    ELSE IF Geq(impact_score, 50) THEN "Moderate"
    ELSE IF Geq(impact_score, 35) THEN "Poor"
    ELSE "Very Poor"

\* The signed difference of the two std values.
StdGapSigned(bf, af, m) ==
    Sub(Get(bf, m \o "_std", Fin(0)), Get(af, m \o "_std", Fin(0)))
\* abs(before.get(m_std, 0) - after.get(m_std, 0))
StdGap(bf, af, m) ==
    Abs(Sub(Get(bf, m \o "_std", Fin(0)), Get(af, m \o "_std", Fin(0))))

\* noise = sum(... for m in ['ndvi', 'evi', 'fvc', 'lai']), summed from 0
Noise(bf, af) ==
    LET term(i) == StdGap(bf, af, ImpactMetrics[i])
    IN  Add(Add(Add(Add(Fin(0), term(1)), term(2)), term(3)), term(4))

\* The penalty clamped from above only.
ConfidenceNoFloor(bf, af) ==
    LET c == Sub(Num(70, 1), Mul(Noise(bf, af), Num(5, 1)))
    IN  IF IsFin(c) /\ c.v <= 95 * One THEN c ELSE Fin(95 * One)
\* conf = np.clip(70.0 - noise * 5.0, 50.0, 95.0)
Confidence(bf, af) ==
    Clip(Sub(Num(70, 1), Mul(Noise(bf, af), Num(5, 1))), 50 * One, 95 * One)

\* _impact_analysis(before, after)
ImpactAnalysis(bf, af) ==
    LET ndvi_ch == ChangePct(bf, af, "ndvi")
        evi_ch == ChangePct(bf, af, "evi")
        fvc_ch == ChangePct(bf, af, "fvc")
        lai_ch == ChangePct(bf, af, "lai")
        weighted == Weighted(ndvi_ch, evi_ch, fvc_ch, lai_ch)
        impact_score == ImpactScore(weighted)
    IN  [impact_score |-> impact_score,
         confidence |-> Confidence(bf, af),
         category |-> Category(impact_score),
         ndvi_change_percent |-> ndvi_ch,
         evi_change_percent |-> evi_ch,
         fvc_change_percent |-> fvc_ch,
         lai_change_percent |-> lai_ch,
         weighted_score |-> weighted]

\* ----------------------------------------------------------- idle values
EmptyIndices == [k \in IndexNames |-> <<>>]
EmptySummary == [name \in {} |-> Fin(0)]
NoReport == [category |-> "none"]

IdleIdx == rgb = <<>> /\ indices = EmptyIndices
IdleFvc == ndviIn = <<>> /\ fvcOut = <<>>
IdleImp == before = EmptySummary /\ after = EmptySummary /\ report = NoReport

\* The server with no request handled yet.
NoRequest == [route |-> "none"]
NoResponse == [code |-> 0, body |-> [status |-> "none"]]
ServerStarted ==
    /\ uploadsDir = {} /\ resultsDir = <<>> /\ uuidCount = 0 /\ now = 0
    /\ req = NoRequest /\ resp = NoResponse /\ trace = {} /\ origin = "none"
    /\ answered = {}
IdleSrv == HAS_CV2 = TRUE /\ HAS_PIL = TRUE /\ ServerStarted

\* --------------------------------------------- _compute_indices, called
\* The channel values: the 8-bit levels 0, 51, ..., 255 over 255 that
\* _to_rgb_array_from_bytes produces (line 87) and that are whole units.
Levels == {(k * One) \div 5 : k \in 0..5}
Pixels == [r : {Fin(v) : v \in Levels},
           g : {Fin(v) : v \in Levels},
           b : {Fin(v) : v \in Levels}]
Rasters == UNION {[1..n -> Pixels] : n \in 1..MaxPixels}

IdxInit == pc = "input" /\ rgb \in Rasters /\ indices = EmptyIndices
           /\ IdleFvc /\ IdleImp /\ IdleSrv

CallComputeIndices ==
    /\ pc = "input"
    /\ indices' = ComputeIndices(rgb)
    /\ pc' = "done"
    /\ UNCHANGED <<rgb, fvcVars, impVars, srvVars>>

IdxNext == CallComputeIndices
SpecIdx == IdxInit /\ [][IdxNext]_vars

\* ------------------------------------------- line 175, applied to vndvi
\* Values of vndvi: around the anchors 0.2 and 0.86, and across (-1, 1).
NdviSamples ==
    {-999999, -500000, 0, 199999, 200000, 200001, 200002, 300000, 530000,
     700000, 859999, 860000, 860001, 860002, 900000, 999999}

FvcInit == pc = "input" /\ ndviIn \in [1..2 -> {Fin(v) : v \in NdviSamples}]
           /\ fvcOut = <<>> /\ IdleIdx /\ IdleImp /\ IdleSrv

CallFvc ==
    /\ pc = "input"
    /\ fvcOut' = [i \in DOMAIN ndviIn |-> Clip(Fvc(ndviIn[i]), 0, One)]
    /\ pc' = "done"
    /\ UNCHANGED <<ndviIn, idxVars, impVars, srvVars>>

FvcNext == CallFvc
SpecFvc == FvcInit /\ [][FvcNext]_vars

\* --------------------------------------------- _impact_analysis, called
\* Before means, in units: negative, -EPS, zero, EPS and larger ones.
BeforeMeans == {-300000, -1, 0, 1, 99999, 100000, 200000}
\* Relative changes (a - b) / (|b| + EPS), in units.
Ratios == {-1200000, -300000, -20, 0, 300000, 599980, 600000, 1200000}
\* After means for the before mean b: each relative change, and 2 b.
AfterMeans(b) ==
    {b + Sgn(r) * MulNat(AbsInt(r), AbsInt(b) + EPS) : r \in Ratios} \cup {2 * b}
\* The std values before, and how far the std values after are from them.
StdBases == {0, 50000}
StdShifts == {-50000, 0, 1, 300000, 950000}

\* A summary: mean m1 and std s1 for ndvi, mean m2 for the others, with
\* the std s2 for evi, s2 / 2 for fvc and 2 s2 for lai.
Summary(m1, s1, m2, s2) ==
    [name \in {k \o "_" \o st : k \in {"ndvi", "evi", "fvc", "lai"},
                                 st \in {"mean", "std"}} |->
        IF name = "ndvi_mean" THEN Fin(m1)
        ELSE IF name = "ndvi_std" THEN Fin(s1)
        ELSE IF name \in {"evi_mean", "fvc_mean", "lai_mean"} THEN Fin(m2)
        ELSE IF name = "evi_std" THEN Fin(s2)
        ELSE IF name = "fvc_std" THEN Fin(s2 \div 2)
        ELSE Fin(2 * s2)]

ImpInit ==
    /\ pc = "input"
    /\ \E b1 \in BeforeMeans, b2 \in {99999, 100000}, s0 \in StdBases :
         \E a1 \in AfterMeans(b1), a2 \in AfterMeans(b2),
            d1 \in {d \in StdShifts : s0 + d >= 0},
            d2 \in {d \in StdShifts : d % 2 = 0 /\ d >= 0} :
             /\ before = Summary(b1, s0, b2, s0)
             /\ after = Summary(a1, s0 + d1, a2, s0 + d2)
    /\ report = NoReport
    /\ IdleIdx /\ IdleFvc /\ IdleSrv

CallImpactAnalysis ==
    /\ pc = "input"
    /\ report' = ImpactAnalysis(before, after)
    /\ pc' = "done"
    /\ UNCHANGED <<before, after, idxVars, fvcVars, srvVars>>

ImpNext == CallImpactAnalysis
SpecImpact == ImpInit /\ [][ImpNext]_vars

\* ------------------------------------------------------------ the server
\* The calls of uuid.uuid4() that are followed.
MaxUuid == 3

\* A call that returned val, and a call that raised an exception whose
\* str() is msg, in the stage at.
Ok(val) == [ok |-> TRUE, val |-> val, msg |-> "", at |-> ""]
Raise(msg, stage) == [ok |-> FALSE, val |-> <<>>, msg |-> msg, at |-> stage]

\* MemoryError(), raised where memory runs out: its str() is empty.
MemoryError(stage) == Raise("", stage)

\* File contents: an image of 8-bit (R, G, B) pixels, or bytes that are none.
ImageBytes(px) == [fmt |-> "image", px |-> px]
Garbage == [fmt |-> "garbage", px |-> <<>>]
Leaf == ImageBytes(<<<<51, 204, 102>>>>)
Field == ImageBytes(<<<<0, 255, 0>>, <<255, 0, 204>>>>)

\* img.astype(np.float32) / 255.0
Scale(px) ==
    [i \in DOMAIN px |-> [r |-> Num(px[i][1], 255), g |-> Num(px[i][2], 255),
                          b |-> Num(px[i][3], 255)]]

\* _to_rgb_array_from_bytes(data)
ToRgbArrayFromBytes(data) ==
    IF HAS_CV2 THEN
        IF data.fmt # "image"
        THEN Raise("Failed to decode image bytes with OpenCV", "decode")
        ELSE Ok(Scale(data.px))
    ELSE IF HAS_PIL THEN
        IF data.fmt # "image"
        THEN Raise("cannot identify image file", "decode")
        ELSE Ok(Scale(data.px))
    ELSE Raise("Neither OpenCV nor Pillow is available for image decoding",
               "decode")

\* The files that /analyze/paths can be pointed at.
Disk ==
    [path \in {"/data/leaf.png", "/srv/server/output/field.png"} |->
        IF path = "/data/leaf.png" THEN Leaf ELSE Field]
AbsolutePaths == {"/data/leaf.png", "/data/gone.png"}
\* The candidate roots of lines 95-102, for the working directory
\* /srv/client and BASE_DIR /srv/client/ai_pipeline.
Candidates ==
    <<"/srv/client", "/srv", "/srv/server/output", "/srv/client/ai_pipeline",
      "/srv/client", "/srv/client/server/output">>

\* _read_image_from_path(path)
ReadImageFromPath(path) ==
    LET hits == {i \in DOMAIN Candidates :
                    (Candidates[i] \o "/" \o path) \in DOMAIN Disk}
        first == CHOOSE i \in hits : \A j \in hits : i <= j
        found == IF path \notin AbsolutePaths /\ hits # {}
                 THEN Candidates[first] \o "/" \o path
                 ELSE path
    IN  IF found \notin DOMAIN Disk
        THEN Raise("Image not found: " \o found, "read")
        ELSE ToRgbArrayFromBytes(Disk[found])

\* uuid.uuid4(), as the n-th call returns it: a value no other call returns.
Uuid4Fixed(n) == 1
Uuid4(n) == n + 1

\* _save_upload(file_storage, prefix), with n calls of uuid4() before it.
SaveUpload(file_storage, prefix, n) ==
    LET ext == IF file_storage.present /\ file_storage.filename.stem # ""
               THEN file_storage.filename.ext
               ELSE ""
        save_path == <<prefix, Uuid4(n), IF ext = "" THEN ".jpg" ELSE ext>>
    IN  IF file_storage.present
        THEN Ok([path |-> save_path, data |-> file_storage.data])
        ELSE Raise("'NoneType' object has no attribute 'save'", "save")

\* np.clip(img * 255.0, 0, 255).astype(np.uint8)
ToUint8(img) ==
    LET byte(x) == MaxInt(0, MinInt(255, (x.v * 255) \div One))
    IN  [i \in DOMAIN img |-> <<byte(img[i].r), byte(img[i].g), byte(img[i].b)>>]

\* What goes wrong in an analysis, if anything: memory runs out in the
\* metric stage or in _to_data_url, the encoder fails, or the write of the
\* results file stops half way.
Faults == {"none", "compute", "encode", "encode_memory", "write"}

\* _to_data_url(img)
ToDataUrl(img, fault) ==
    IF fault = "encode_memory" THEN MemoryError("assembly")
    ELSE IF HAS_PIL THEN
        IF fault = "encode"
        THEN Raise("encoder error -2 when writing image file", "assembly")
        ELSE Ok([mime |-> "image/jpeg", b64 |-> ToUint8(img)])
    ELSE IF ~HAS_CV2
        THEN Raise("Cannot encode image without PIL or OpenCV", "assembly")
    ELSE IF fault = "encode" THEN Raise("Failed to encode image", "assembly")
    ELSE Ok([mime |-> "image/jpeg", b64 |-> ToUint8(img)])

\* _compute_metrics and _impact_analysis over the rasters of the image
\* files, tabulated.
DecodedImages == {Scale(Leaf.px), Scale(Field.px)}
MetricsTable == [img \in DecodedImages |-> ComputeMetrics(img)]
ImpactTable ==
    [pair \in DecodedImages \X DecodedImages |->
        ImpactAnalysis(MetricsTable[pair[1]], MetricsTable[pair[2]])]

\* datetime.utcnow().isoformat() + 'Z'
Timestamp(clock) == [iso |-> clock, suffix |-> "Z"]

\* _build_results(before_rgb, after_rgb)
BuildResults(before_rgb, after_rgb, fault) ==
    LET before_image == ToDataUrl(before_rgb, fault)
        after_image == ToDataUrl(after_rgb, fault)
    IN  IF fault = "compute" THEN MemoryError("compute")
        ELSE IF ~before_image.ok THEN before_image
        ELSE IF ~after_image.ok THEN after_image
        ELSE Ok([timestamp |-> Timestamp(now),
                 before_image |-> before_image.val,
                 after_image |-> after_image.val,
                 before_metrics |-> MetricsTable[before_rgb],
                 after_metrics |-> MetricsTable[after_rgb],
                 impact_analysis |-> ImpactTable[<<before_rgb, after_rgb>>],
                 status |-> "success"])

\* ------------------------------------------------------------------ JSON
\* The text of a float and of a string.
NumberText(x) ==
    IF IsNaN(x) THEN [t |-> "NaN", n |-> 0]
    ELSE IF IsInf(x) THEN [t |-> IF x.v > 0 THEN "Infinity" ELSE "-Infinity",
                           n |-> 0]
    ELSE [t |-> "number", n |-> x.v]
StringText(s) == [t |-> "string", s |-> s]
Objects == {"before_metrics", "after_metrics", "impact_analysis"}

\* json.dump(obj) and the body of jsonify(obj): the text of each member.
JsonDump(obj) ==
    [k \in DOMAIN obj |->
        IF k \in Objects
        THEN [f \in DOMAIN obj[k] |->
                 IF f = "category" THEN StringText(obj[k][f])
                 ELSE NumberText(obj[k][f])]
        ELSE StringText(obj[k])]
Jsonify(obj) == JsonDump(obj)

\* The float a number text is read as.
NumberOf(text) ==
    IF text.t = "NaN" THEN NaN
    ELSE IF text.t = "Infinity" THEN Inf(1)
    ELSE IF text.t = "-Infinity" THEN Inf(-1)
    ELSE Fin(text.n)

\* A file whose writing stopped half way, which json.load rejects.
Truncated == [truncated |-> StringText("")]
\* json.load(f)
JsonLoad(text) ==
    IF "truncated" \in DOMAIN text THEN Raise("Expecting value", "load")
    ELSE Ok([k \in DOMAIN text |->
                IF k \in Objects
                THEN [f \in DOMAIN text[k] |->
                         IF text[k][f].t = "string" THEN text[k][f].s
                         ELSE NumberOf(text[k][f])]
                ELSE text[k].s])

\* {'status': 'error', 'error': str(e)}
ErrorDict(msg) == [status |-> "error", error |-> msg]
\* The response of Flask to an exception no handler caught.
InternalServerError == [code |-> 500, body |-> [html |-> "Internal Server Error"]]

\* -------------------------------------------------------------- requests
\* The 'before' and 'after' parts of a multipart form: no part, a part with
\* no file chosen (an empty filename), and files.
NoPart == [present |-> FALSE, filename |-> [stem |-> "", ext |-> ""], data |-> Garbage]
Part(stem, ext, data) ==
    [present |-> TRUE, filename |-> [stem |-> stem, ext |-> ext], data |-> data]
UploadParts ==
    {NoPart, Part("", "", Garbage), Part("leaf", ".png", Leaf),
     Part("field", "", Field), Part("notes", ".txt", Garbage)}

\* bool(file_storage): a part with a filename.
Truthy(file_storage) == file_storage.present /\ file_storage.filename.stem # ""

\* The JSON body of /analyze/paths: none, something that is no object, or
\* an object whose before_path and after_path are absent or strings.
NoPath == [some |-> FALSE, s |-> ""]
PathOf(s) == [some |-> TRUE, s |-> s]
PathValues ==
    {NoPath, PathOf(""), PathOf("field.png"), PathOf("/data/gone.png")}
JsonBodies ==
    {[kind |-> k, before_path |-> NoPath, after_path |-> NoPath] :
        k \in {"none", "list"}}
    \cup [kind : {"dict"}, before_path : PathValues, after_path : PathValues]

\* Lines 310-318 and 335-342: what follows from built, the outcome of
\* _build_results, with n calls of uuid4() made before.
Analysis(built, n, fault) ==
    LET session_id == Uuid4(n)
        results == ("session_id" :> session_id) @@ built.val
        failed(e, stages, calls, written) ==
            [code |-> 500, body |-> Jsonify(ErrorDict(e.msg)), origin |-> e.at,
             trace |-> stages, calls |-> calls, written |-> written,
             text |-> Truncated, session_id |-> session_id]
    IN  IF ~built.ok
        THEN failed(built, IF built.at = "compute" THEN {"metrics"}
                           ELSE {"metrics", "encode"}, 0, FALSE)
        ELSE IF fault = "write"
        THEN failed(Raise("[Errno 28] No space left on device", "persist"),
                    {"metrics", "encode", "impact", "uuid", "persist"}, 1,
                    TRUE)
        ELSE [code |-> 200, body |-> Jsonify(results), origin |-> "success",
              trace |-> {"metrics", "encode", "impact", "uuid", "persist"},
              calls |-> 1, written |-> TRUE, text |-> JsonDump(results),
              session_id |-> session_id]

\* The effect of Analysis, after the stages in done and calls calls of
\* uuid4() by the handler itself.
Conclude(out, done, calls) ==
    /\ resp' = [code |-> out.code, body |-> out.body]
    /\ origin' = out.origin
    /\ trace' = done \cup out.trace
    /\ uuidCount' = uuidCount + calls + out.calls
    /\ resultsDir' = IF out.written
                     THEN (out.session_id :> out.text) @@ resultsDir
                     ELSE resultsDir
    /\ answered' = IF out.origin = "success"
                   THEN answered \cup {<<out.session_id, out.body>>}
                   ELSE answered
    /\ now' = IF out.origin = "success" THEN now + 1 ELSE now

\* An exception caught at lines 319 and 343, in a stage before Analysis.
Caught(e, done, calls) ==
    /\ resp' = [code |-> 500, body |-> Jsonify(ErrorDict(e.msg))]
    /\ origin' = e.at
    /\ trace' = done
    /\ uuidCount' = uuidCount + calls
    /\ UNCHANGED <<resultsDir, answered, now>>

\* A response given before anything was done.
Refuse(code, msg, why) ==
    /\ resp' = [code |-> code, body |-> Jsonify(ErrorDict(msg))]
    /\ origin' = why
    /\ trace' = {}
    /\ UNCHANGED <<uploadsDir, resultsDir, uuidCount, answered, now>>

\* if not before_file or not after_file
MissingUploadBoth(before_file, after_file) ==
    ~Truthy(before_file) /\ ~Truthy(after_file)
MissingUpload(before_file, after_file) ==
    ~Truthy(before_file) \/ ~Truthy(after_file)

\* POST /analyze
AnalyzeUploads ==
    /\ pc = "serving"
    /\ \E before_file, after_file \in UploadParts :
        LET before_path == SaveUpload(before_file, "before", uuidCount)
            after_path == SaveUpload(after_file, "after", uuidCount + 1)
            before_rgb == ToRgbArrayFromBytes(before_path.val.data)
            after_rgb == ToRgbArrayFromBytes(after_path.val.data)
        IN  /\ req' = [route |-> "analyze", before |-> before_file,
                       after |-> after_file]
            /\ IF MissingUpload(before_file, after_file)
               THEN Refuse(400, "Missing files: before and/or after", "missing")
               ELSE /\ uuidCount + 3 <= MaxUuid
                    /\ IF ~before_path.ok
                       THEN /\ resp' = InternalServerError
                            /\ origin' = "save"
                            /\ trace' = {"uuid"}
                            /\ uuidCount' = uuidCount + 1
                            /\ UNCHANGED <<uploadsDir, resultsDir, answered, now>>
                       ELSE IF ~after_path.ok
                       THEN /\ resp' = InternalServerError
                            /\ origin' = "save"
                            /\ trace' = {"uuid", "save"}
                            /\ uuidCount' = uuidCount + 2
                            /\ uploadsDir' = uploadsDir \cup {before_path.val}
                            /\ UNCHANGED <<resultsDir, answered, now>>
                       ELSE /\ uploadsDir' = uploadsDir \cup
                                                {before_path.val, after_path.val}
                            /\ IF ~before_rgb.ok
                               THEN Caught(before_rgb, {"save", "decode"}, 2)
                               ELSE IF ~after_rgb.ok
                               THEN Caught(after_rgb, {"save", "decode"}, 2)
                               ELSE \E fault \in Faults :
                                    \E built \in {BuildResults(before_rgb.val,
                                                   after_rgb.val, fault)} :
                                    \E out \in {Analysis(built, uuidCount + 2,
                                                          fault)} :
                                      Conclude(out, {"save", "decode"}, 2)
    /\ UNCHANGED <<pc, idxVars, fvcVars, impVars, libVars>>

\* if not before_path or not after_path
MissingPaths(before_path, after_path) ==
    \/ ~before_path.some \/ before_path.s = ""
    \/ ~after_path.some \/ after_path.s = ""

\* POST /analyze/paths
AnalyzeByPaths ==
    /\ pc = "serving"
    /\ \E body \in JsonBodies :
        LET before_rgb == ReadImageFromPath(body.before_path.s)
            after_rgb == ReadImageFromPath(body.after_path.s)
        IN  /\ req' = [route |-> "paths", body |-> body]
            /\ IF body.kind = "list"
               THEN Refuse(500, "'list' object has no attribute 'get'", "request")
               ELSE IF MissingPaths(body.before_path, body.after_path)
               THEN Refuse(400, "Missing before_path or after_path", "missing")
               ELSE /\ uuidCount + 1 <= MaxUuid
                    /\ UNCHANGED uploadsDir
                    /\ IF ~before_rgb.ok
                       THEN Caught(before_rgb, {"decode"}, 0)
                       ELSE IF ~after_rgb.ok
                       THEN Caught(after_rgb, {"decode"}, 0)
                       ELSE \E fault \in Faults :
                            \E built \in {BuildResults(before_rgb.val,
                                                       after_rgb.val, fault)} :
                            \E out \in {Analysis(built, uuidCount, fault)} :
                              Conclude(out, {"decode"}, 0)
    /\ UNCHANGED <<pc, idxVars, fvcVars, impVars, libVars>>

\* GET /results/<session_id>
GetResults ==
    /\ pc = "serving"
    /\ \E session_id \in 0..MaxUuid :
        LET data == JsonLoad(resultsDir[session_id])
        IN  /\ req' = [route |-> "results", session_id |-> session_id]
            /\ IF session_id \notin DOMAIN resultsDir
               THEN Refuse(404, "Session not found", "notfound")
               ELSE /\ resp' = IF data.ok
                               THEN [code |-> 200, body |-> Jsonify(data.val)]
                               ELSE InternalServerError
                    /\ origin' = IF data.ok THEN "found" ELSE "load"
                    /\ trace' = {}
                    /\ UNCHANGED <<uploadsDir, resultsDir, uuidCount, answered,
                                   now>>
    /\ UNCHANGED <<pc, idxVars, fvcVars, impVars, libVars>>

Init ==
    /\ pc = "serving"
    /\ HAS_CV2 \in BOOLEAN /\ HAS_PIL \in BOOLEAN
    /\ ServerStarted
    /\ IdleIdx /\ IdleFvc /\ IdleImp

Next == AnalyzeUploads \/ AnalyzeByPaths \/ GetResults
Spec == Init /\ [][Next]_vars

\* ================================================================ claims
InRange(x, lo, hi) == IsFin(x) /\ lo <= x.v /\ x.v <= hi
GuardedDivisions == {"ndvi", "evi", "ndwi", "savi"}

\* C1: for every raster with R, G and B in [0, 1], every value of the six
\* rasters returned by _compute_indices is a finite number in its declared
\* range (NDVI, EVI, NDWI, SAVI in [-1, 1], FVC in [0, 1], LAI in [0, 6]),
\* and none of the four epsilon-guarded divisions yields a NaN or an
\* infinity.
C1_IndicesInRange ==
    pc = "done" /\ rgb # <<>> =>
        \A i \in DOMAIN rgb :
            /\ \A k \in GuardedDivisions :
                 /\ InRange(indices[k][i], -One, One)
                 /\ IsFin(RawIndices(rgb[i])[k])
            /\ InRange(indices.fvc[i], 0, One)
            /\ InRange(indices.lai[i], 0, 6 * One)

\* The pixel (0.2, 0.8, 0.4), whose EVI denominator is EPS alone, has been
\* given an EVI of 1 by the final clamp.
C1_Witness ==
    /\ pc = "done"
    /\ rgb # <<>>
    /\ rgb[1] = [r |-> Fin(200000), g |-> Fin(800000), b |-> Fin(400000)]
    /\ RawIndices(rgb[1]).evi.v > One
    /\ indices.evi[1] = Fin(One)

StdsEqual == \A i \in DOMAIN ImpactMetrics :
                before[ImpactMetrics[i] \o "_std"] = after[ImpactMetrics[i] \o "_std"]
Doubled ==
    /\ report # NoReport
    /\ StdsEqual
    /\ \A i \in DOMAIN ImpactMetrics :
         LET key == ImpactMetrics[i] \o "_mean"
         IN  before[key].v > 0 /\ after[key].v = 2 * before[key].v
Scenario ==
    /\ Doubled
    /\ before.ndvi_mean = Fin(200000)
    /\ before.evi_mean = Fin(100000)
    /\ before.fvc_mean = Fin(100000)
    /\ before.lai_mean = Fin(100000)
Changes == <<report.ndvi_change_percent, report.evi_change_percent,
             report.fvc_change_percent, report.lai_change_percent>>

\* C2, as the code has it: when each after mean is twice a positive before
\* mean b and the stds are equal, each percent change is 100 b / (b + EPS),
\* strictly between 0 and 100, so weighted_score and impact_score stay
\* strictly below 100, and confidence is 70; in the scenario (0.2, 0.1,
\* 0.1, 0.1) the changes are 99.9995 and 99.999, weighted_score is 99.9992,
\* impact_score 99.9996 and the category "Excellent".
C2_DoublingBelow100 ==
    pc = "done" /\ Doubled =>
        /\ \A i \in DOMAIN Changes : InRange(Changes[i], 1, 100 * One - 1)
        /\ InRange(report.weighted_score, 1, 100 * One - 1)
        /\ InRange(report.impact_score, 50 * One + 1, 100 * One - 1)
        /\ report.confidence = Fin(70 * One)
        /\ Scenario =>
              /\ InRange(report.ndvi_change_percent, 99999400, 99999600)
              /\ \A i \in 2..4 : InRange(Changes[i], 99998900, 99999100)
              /\ InRange(report.weighted_score, 99999100, 99999300)
              /\ InRange(report.impact_score, 99999500, 99999700)
              /\ report.category = "Excellent"

C2_Witness ==
    /\ pc = "done"
    /\ Scenario
    /\ report.category = "Excellent"
    /\ report.impact_score.v < 100 * One

\* C2 as stated: in the doubling case every percent change, weighted_score
\* and impact_score equal 100.
C2_Original ==
    pc = "done" /\ Doubled =>
        /\ \A i \in DOMAIN Changes : Changes[i] = Fin(100 * One)
        /\ report.weighted_score = Fin(100 * One)
        /\ report.impact_score = Fin(100 * One)
        /\ report.category = "Excellent"
        /\ report.confidence = Fin(70 * One)

\* C3, as the code has it: FVC is non-decreasing in NDVI from 0.2 upwards,
\* is 0 for NDVI <= 0.2, and is 1 for NDVI >= 0.86 + EPS; at NDVI = 0.86
\* itself it is (0.66 / 0.660001) ^ 2, just below 1.
C3_FvcSaturatesAboveAnchor ==
    pc = "done" /\ ndviIn # <<>> =>
        /\ \A i, j \in DOMAIN ndviIn :
             NdviSoil <= ndviIn[i].v /\ ndviIn[i].v <= ndviIn[j].v
                 => fvcOut[i].v <= fvcOut[j].v
        /\ \A i \in DOMAIN ndviIn :
             /\ IsFin(fvcOut[i])
             /\ ndviIn[i].v <= NdviSoil => fvcOut[i] = Fin(0)
             /\ ndviIn[i].v >= NdviVeg + EPS => fvcOut[i] = Fin(One)
             /\ ndviIn[i].v = NdviVeg =>
                    fvcOut[i].v < One /\ fvcOut[i].v >= One - 10

C3_Witness ==
    /\ pc = "done"
    /\ ndviIn = <<Fin(NdviVeg), Fin(NdviVeg + EPS)>>
    /\ fvcOut[1].v < One
    /\ fvcOut[2] = Fin(One)

\* C3 as stated: FVC is exactly 1 for every NDVI >= 0.86, 0.86 included.
C3_Original ==
    pc = "done" /\ ndviIn # <<>> =>
        \A i \in DOMAIN ndviIn :
            ndviIn[i].v >= NdviVeg => fvcOut[i] = Fin(One)

\* C4: the category is a total function of impact_score, each band
\* inclusive on its lower edge: "Excellent" iff score >= 80, "Good" iff
\* 65 <= score < 80, "Moderate" iff 50 <= score < 65, "Poor" iff
\* 35 <= score < 50, "Very Poor" iff score < 35, for scores in [0, 100].
C4_CategoryBands ==
    pc = "done" /\ report # NoReport =>
        LET s == report.impact_score.v
            c == report.category
        IN  /\ InRange(report.impact_score, 0, 100 * One)
            /\ c \in {"Excellent", "Good", "Moderate", "Poor", "Very Poor"}
            /\ c = "Excellent" <=> s >= 80 * One
            /\ c = "Good" <=> 65 * One <= s /\ s < 80 * One
            /\ c = "Moderate" <=> 50 * One <= s /\ s < 65 * One
            /\ c = "Poor" <=> 35 * One <= s /\ s < 50 * One
            /\ c = "Very Poor" <=> s < 35 * One

\* A score of exactly 80 has been labelled "Excellent".
C4_Witness ==
    /\ pc = "done"
    /\ report # NoReport
    /\ report.impact_score = Fin(80 * One)
    /\ report.category = "Excellent"

\* The sum of the four absolute std differences, in units.
NoiseUnits ==
    LET gap(m) == AbsInt(before[m \o "_std"].v - after[m \o "_std"].v)
    IN  gap("ndvi") + gap("evi") + gap("fvc") + gap("lai")

\* C5: whatever the std-divergence penalty, the confidence is a number
\* that is never below 50 and never above 95.
C5_ConfidenceClamped ==
    pc = "done" /\ report # NoReport =>
        InRange(report.confidence, 50 * One, 95 * One)

\* A penalty above 20 (noise above 4) has been clamped to the confidence 50.
C5_Witness ==
    /\ pc = "done"
    /\ report # NoReport
    /\ 5 * NoiseUnits > 20 * One
    /\ report.confidence = Fin(50 * One)

\* C6: when the two summaries are identical, the four percent changes and
\* weighted_score are 0, impact_score is exactly 50 and the category is
\* "Moderate", for zero and negative means as well.
C6_IdenticalIsNeutral ==
    pc = "done" /\ report # NoReport /\ before = after =>
        /\ \A i \in DOMAIN Changes : Changes[i] = Fin(0)
        /\ report.weighted_score = Fin(0)
        /\ report.impact_score = Fin(50 * One)
        /\ report.category = "Moderate"

\* Identical summaries with a negative ndvi mean have been scored 50.
C6_Witness ==
    /\ pc = "done"
    /\ report # NoReport
    /\ before = after
    /\ before.ndvi_mean.v < 0
    /\ report.impact_score = Fin(50 * One)

InputAbsent(r) ==
    \/ /\ r.route = "analyze"
       /\ \/ ~r.before.present \/ r.before.filename.stem = ""
          \/ ~r.after.present \/ r.after.filename.stem = ""
    \/ /\ r.route = "paths"
       /\ \/ r.body.kind # "dict"
          \/ ~r.body.before_path.some \/ r.body.before_path.s = ""
          \/ ~r.body.after_path.some \/ r.body.after_path.s = ""

\* C7: an analysis request, to either entry point, with the before or the
\* after input absent is answered with a record of status "error" that
\* carries a message, and before any stage: no upload is saved, no image
\* decoded, no uuid drawn and nothing written to the results directory.
C7_MissingInputRefusedFirst ==
    [][InputAbsent(req') =>
          /\ DOMAIN resp'.body = {"status", "error"}
          /\ resp'.body.status = StringText("error")
          /\ resp'.body.error.t = "string" /\ resp'.body.error.s # ""
          /\ resp'.code \in {400, 500}
          /\ trace' = {}
          /\ UNCHANGED <<uploadsDir, resultsDir, uuidCount, answered>>]_vars

\* After an earlier analysis that saved uploads, /analyze with a 'before'
\* file and no 'after' part has been refused with 400.
C7_Witness ==
    /\ pc = "serving"
    /\ req.route = "analyze"
    /\ Truthy(req.before) /\ ~req.after.present
    /\ resp = [code |-> 400,
               body |-> [status |-> StringText("error"),
                         error |-> StringText("Missing files: before and/or after")]]
    /\ uploadsDir # {}
    /\ trace = {}

\* C8: for every analysis answered with status "success" and session id s,
\* the file of s exists and get_results(s) returns the very record that was
\* returned to that caller, session_id included; no two successful
\* analyses share an id, so no record stored earlier is overwritten.
C8_StoredIsReturned ==
    pc = "serving" =>
        /\ \A a \in answered :
             /\ a[1] \in DOMAIN resultsDir
             /\ JsonLoad(resultsDir[a[1]]).ok
             /\ Jsonify(JsonLoad(resultsDir[a[1]]).val) = a[2]
             /\ a[2].session_id = StringText(a[1])
             /\ a[2].status = StringText("success")
        /\ \A a, b \in answered : a[1] = b[1] => a = b
        /\ req.route = "results" =>
             \A a \in answered :
                 a[1] = req.session_id => resp = [code |-> 200, body |-> a[2]]

\* After two successful analyses, get_results of the first one's id has
\* returned the record that analysis returned.
C8_Witness ==
    /\ pc = "serving"
    /\ Cardinality(answered) >= 2
    /\ req.route = "results"
    /\ \E a, b \in answered :
         /\ a[1] < b[1]
         /\ a[1] = req.session_id
         /\ resp = [code |-> 200, body |-> a[2]]

\* What the caller of an analysis receives when the metric stage fails.
ComputationErrorResponses ==
    {[code |-> 500, body |-> Jsonify(ErrorDict(MemoryError("compute").msg))]}

\* C9: the error response to a failure that originates in result assembly
\* (_to_data_url) is none that a computation error produces, so that the
\* caller can tell the two kinds apart.
C9_AssemblyErrorDistinct ==
    pc = "serving" /\ origin = "assembly" =>
        resp \notin ComputationErrorResponses

====
